---- MODULE Spec2Model ----
(***************************************************************************)
(* Model of the conversation-aware batch execution engine of               *)
(* dify_chatflow_batch.                                                    *)
(*                                                                         *)
(* Two engines share the client and the conversation store:                *)
(*   - the web engine, web/backend/routes/execution.py: the global         *)
(*     execution_state, the start/pause/resume/stop handlers and the       *)
(*     background coroutine execute_test_cases;                            *)
(*   - the command-line engine, src/main.py: ChatflowTestTool.             *)
(*                                                                         *)
(* The web engine runs on one asyncio event loop: a handler or the         *)
(* coroutine runs without interruption until it returns or reaches an      *)
(* await (asyncio.sleep).  The variable cur names the coroutine that holds *)
(* the event loop (0: the event loop is free, which is when a request      *)
(* handler, a status reader or a sleeping coroutine can run).              *)
(***************************************************************************)
EXTENDS Integers, Sequences, FiniteSets, TLC

\* ---------------------------------------------------------------- bounds
\* accepted start() calls in one behaviour (each launches one coroutine)
MaxStarts == 2
\* length of the longest stored test-case list
MaxCases == 2
\* the same where the conversation ids are followed (SpecConv)
MaxConvCases == 3
\* entries the log buffer keeps (100 in add_log, line 63)
MaxLogEntries == 2
\* the largest max_retries a retry_on_failure decorator is given
MaxWrapperRetries == 3
\* the most lines a streaming response has
MaxLines == 4
\* the largest turn number, and the most turns added to a manager
MaxTurns == 3
\* the most entries appended to the log when the log is taken on its own
MaxAppends == 5

\* conversation-group keys used by the test cases
Groups == {"g1", "g2"}

\* ------------------------------------------------------ program constants
\* max_retries of the inline retry loops of both engines
max_retries == 3

\* ------------------------------------------------------------ id strings
\* A string is a sequence of characters.  None is Python's None.
None == <<"None">>
\* the literal 'new' both engines compare the stored id with
NewLiteral == <<"n", "e", "w">>

\* conversation_id values a response can carry (None: key absent or null)
RawIds == {None, <<>>, <<" ">>, <<"a">>, <<" ", "a">>, <<"b">>, NewLiteral}

\* Python truthiness of an Optional[str]
Truthy(x) == x # None /\ x # <<>>

RECURSIVE LStrip(_)
LStrip(s) == IF s # <<>> /\ Head(s) = " " THEN LStrip(Tail(s)) ELSE s

RECURSIVE RStrip(_)
RStrip(s) ==
    IF s # <<>> /\ s[Len(s)] = " " THEN RStrip(SubSeq(s, 1, Len(s) - 1)) ELSE s

\* str.strip()
Strip(s) == RStrip(LStrip(s))

\* mutant: the id is returned as received, without strip()
extract_conversation_id_raw(response_data) ==
    IF Truthy(response_data.conversation_id)
    THEN response_data.conversation_id
    ELSE None

\* DifyClient.extract_conversation_id
extract_conversation_id(response_data) ==
    IF Truthy(response_data.conversation_id)
    THEN Strip(response_data.conversation_id)
    ELSE None

\* The conversation_id key of the request body built by send_chat_message
\* for the argument the engines pass (conversation_id if it is not 'new').
\* None: the payload has no conversation_id key.
PayloadConversationId(conversation_id) ==
    LET arg == IF conversation_id # NewLiteral THEN conversation_id ELSE None
    IN  IF Truthy(arg) THEN arg ELSE None

\* mutant: the id of the first group is returned for every group
get_conversation_id_first(mapping, group) == mapping["g1"]

\* ConversationManager.get_conversation_id
get_conversation_id(mapping, group) == mapping[group]

\* ConversationManager.set_conversation_id
set_conversation_id(mapping, group, id) == [mapping EXCEPT ![group] = id]

\* ------------------------------------------------------- API call results
\* the messages of the DifyAPIError send_chat_message raises: a timeout of
\* the request (line 97) and a body that is not valid JSON (line 134)
TimeoutMessage == "API request timed out"
JSONDecodeMessage == "API response JSON parse failed"
ErrorMessages == {TimeoutMessage, JSONDecodeMessage}

\* What one send_chat_message call does: it raises ("error", with the
\* message of the exception), or returns a response dict: an empty one
\* ("empty", falsy) or one with keys ("dict").
NoResponse == [kind |-> "none", conversation_id |-> None, message |-> ""]
RaisedError(m) == [kind |-> "error", conversation_id |-> None, message |-> m]
EmptyDict == [kind |-> "empty", conversation_id |-> None, message |-> ""]
DictWith(id) == [kind |-> "dict", conversation_id |-> id, message |-> ""]

\* outcomes when the ids are of no interest
PlainOutcomes == {RaisedError(TimeoutMessage), EmptyDict, DictWith(None)}
\* outcomes with every error message
RetryOutcomes == {RaisedError(m) : m \in ErrorMessages} \cup {EmptyDict, DictWith(None)}
\* outcomes with every id value
IdOutcomes == {RaisedError(TimeoutMessage), EmptyDict} \cup {DictWith(id) : id \in RawIds}

\* `if api_response` of both engines
ResponseTruthy(api_response) == api_response.kind = "dict"

\* ------------------------------------------------------------- test cases
\* A test case is represented by its conversation-group key.
RECURSIVE SeqsUpTo(_, _)
SeqsUpTo(S, n) ==
    IF n = 0 THEN {<<>>}
    ELSE LET shorter == SeqsUpTo(S, n - 1)
         IN  shorter \cup {Append(s, x) : s \in {t \in shorter : Len(t) = n - 1}, x \in S}

\* test-case lists over every group, and over one group only
CaseLists == SeqsUpTo(Groups, MaxConvCases)
OneGroupLists == SeqsUpTo({"g1"}, MaxCases)

Loops == 1..MaxStarts

VARIABLES
    engine,        \* "web" or "cli": which program is running
    cases,         \* the stored test cases (storage.get_test_cases())
    rounds,        \* the turn number of every test case ('round', 'turn_number')
    manager,       \* a ConversationManager object used on its own
    logclient,     \* a reader of the log: (history) every entry appended so far,
                   \*   the limit of its last GET /logs and the data it got
    snapshot,      \* the body of the last response to GET /status
    subscription,  \* the generator event_stream of one GET /stream
    active_config, \* a stored configuration has is_active (storage.list_configs())
    status,        \* execution_state["status"]
    task_id,       \* execution_state["task_id"]: 0 is None, n the n-th uuid
    progress,      \* execution_state["progress"]
    statistics,    \* execution_state["statistics"]: success_rate, in whole percent
    logs,          \* execution_state["logs"]
    end_time,      \* execution_state["end_time"] is set
    response,      \* what the last control request was answered with
    cur,           \* the coroutine holding the event loop, 0 if none
    loop,          \* the execute_test_cases coroutines, by start number
    sink,          \* the history file written by storage.add_test_record
    stopMark,      \* history: cases a run's loop had begun when stop() was accepted
    cli,           \* the command-line engine: ChatflowTestTool and its run()
    wrapper,       \* one call of a function decorated with retry_on_failure
    stream         \* one call of DifyClient._handle_streaming_response

webvars == <<status, task_id, progress, statistics, logs, end_time, response,
            cur, loop, sink, stopMark>>
vars == <<engine, cases, rounds, manager, logclient, snapshot, subscription, active_config, status, task_id, progress, statistics, logs,
         end_time, response, cur, loop, sink, stopMark, cli, wrapper, stream>>

EmptyMapping == [g \in Groups |-> None]

ZeroProgress(n) == [total |-> n, completed |-> 0, success |-> 0, failed |-> 0]

ZeroStatistics == [success_rate |-> 0]

\* mutant: the log keeps its oldest entries and drops the new ones
add_log_oldest(buffer, level, message) ==
    IF Len(buffer) >= MaxLogEntries THEN buffer
    ELSE Append(buffer, [level |-> level, message |-> message])

\* add_log: a log entry is its level and its message (the message without
\* the values formatted into it)
add_log(buffer, level, message) ==
    LET appended == Append(buffer, [level |-> level, message |-> message])
    IN  IF Len(appended) > MaxLogEntries
        THEN SubSeq(appended, Len(appended) - MaxLogEntries + 1, Len(appended))
        ELSE appended

\* mutant: the first entries of the buffer are returned
get_test_logs_first(buffer, limit) ==
    IF limit > 0
    THEN SubSeq(buffer, 1, IF limit < Len(buffer) THEN limit ELSE Len(buffer))
    ELSE buffer

\* the data of get_test_logs: line 158, the slice logs[-limit:] being the
\* whole list when limit is larger than its length
get_test_logs(buffer, limit) ==
    IF limit > 0
    THEN SubSeq(buffer, (IF Len(buffer) - limit > 0 THEN Len(buffer) - limit ELSE 0) + 1,
                Len(buffer))
    ELSE buffer

\* nothing was appended and no GET /logs was made
NoLogClient == [appended |-> <<>>, requests |-> 0, limit |-> 0, data |-> <<>>]

\* no control request has been answered yet
NoRequest == [op |-> "none", status_code |-> 0, detail |-> ""]
\* ApiResponse(success=True, ...) of a handler
Accepted(op) == [op |-> op, status_code |-> 200, detail |-> ""]
\* HTTPException(status_code=400, detail=...) of a handler
Rejected(op, detail) == [op |-> op, status_code |-> 400, detail |-> detail]

\* ------------------------------------------------- ConversationManager
\* _conversation_turns of a new manager: no group has a turn
EmptyTurns == [g \in Groups |-> <<>>]

\* ConversationManager.__init__: lines 16-29
NewConversationManager == [mapping |-> EmptyMapping, turns |-> EmptyTurns]

\* mutant: a turn is put in front of the group's history
add_turn_first(turns, group, turn_number, api_status) ==
    [turns EXCEPT ![group] =
        <<[turn_number |-> turn_number, api_status |-> api_status]>> \o @]

\* ConversationManager.add_turn: lines 71-102
add_turn(turns, group, turn_number, api_status) ==
    [turns EXCEPT ![group] =
        Append(@, [turn_number |-> turn_number, api_status |-> api_status])]

\* ConversationManager.get_turn_count: line 139
get_turn_count(turns, group) == Len(turns[group])

\* ConversationManager.validate_turn_sequence: lines 152-158
validate_turn_sequence(turns, group, expected_turn) ==
    IF get_turn_count(turns, group) = 0
    THEN expected_turn = 1
    ELSE expected_turn = get_turn_count(turns, group) + 1

\* the turn numbers of a list of cases whose groups' turns come in order
InOrderRounds(groups) ==
    [k \in DOMAIN groups |->
        Cardinality({j \in 1..k : groups[j] = groups[k]})]

\* one execute_test_cases coroutine: its position and its local variables
InitLoop ==
    [pc |-> "unborn",
     task |-> 0,                        \* task_id read at line 184
     i |-> 1,                           \* loop index (1-based)
     attempt |-> 0,                     \* retry loop index
     conversation_id |-> None,          \* the local of line 281
     api_response |-> NoResponse,       \* the local of line 289
     last_error |-> "",                 \* the local of line 291: message of the last
                                        \*   exception ("": None)
     raised |-> FALSE,                  \* line 314 raised: the handler of line 340 runs
     results |-> <<>>,                  \* the local of line 185
     calls |-> 0,                       \* history: send_chat_message calls of the case
     warned |-> 0,                      \* history: retry warnings of the case
     stopBreak |-> 0,                   \* history: the case whose retry loop was left
                                        \*   at line 297 (0: none)
     mapping |-> EmptyMapping,          \* ConversationManager._conversation_mapping
     turns |-> EmptyTurns,              \* ConversationManager._conversation_turns
     begun |-> 0,                       \* history: cases begun
     handed |-> 0,                      \* history: results given to storage.add_test_record
     called |-> 0,                      \* history: index of the last case an API call was made for
     lastId |-> EmptyMapping,           \* history: per group, the id the last call
                                        \*   returned (None: none, or the call failed)
     lastReq |-> [sent |-> None, prev |-> None],
                                        \* history: the conversation_id of the last request
                                        \*   and the group's lastId when it was sent
     lastTruthy |-> EmptyMapping,       \* history: per group, the id last returned that
                                        \*   was not empty
     lastGood |-> EmptyMapping]         \* history: per group, the id last returned that
                                        \*   was not blank

\* ChatflowTestTool after __init__: its position in run(), self.stats,
\* the conversation manager and the locals of process_test_case
InitCli ==
    [pc |-> "init",
     file |-> <<>>,                     \* the rows of the result file
     handed |-> 0,                      \* history: calls of append_result_to_file
     backup |-> <<>>,                   \* the rows of the file save_results has written
     success |-> FALSE,                 \* run() has returned True
     delays |-> 0,                      \* history: calls of time.sleep(2) in run()
     config |-> "",                     \* history: the API configuration found at the start
     stats |-> [total_cases |-> 0, processed_cases |-> 0,
                successful_cases |-> 0, failed_cases |-> 0],
     i |-> 1,
     attempt |-> 0,
     conversation_id |-> None,
     api_response |-> NoResponse,
     last_error |-> "",
     raised |-> FALSE,
     results |-> <<>>,
     calls |-> 0,                       \* history, as in InitLoop
     warned |-> 0,                      \* history: logger.warning calls of the case
     mapping |-> EmptyMapping,
     turns |-> EmptyTurns,
     called |-> 0,
     lastId |-> EmptyMapping,
     lastReq |-> [sent |-> None, prev |-> None],
     lastTruthy |-> EmptyMapping,       \* history: per group, the id last returned that
                                        \*   was not empty
     lastGood |-> EmptyMapping]         \* history: per group, the id last returned that
                                        \*   was not blank

\* wrapper() of retry_on_failure(max_retries=n) when it is called: its
\* position, the loop index and (history) the calls of func it has made
InitWrapper(n) == [pc |-> "call", max_retries |-> n, attempt |-> 0, calls |-> 0]

\* ---------------------------------------------- the lines of a stream
\* A line of a streaming response, as _handle_streaming_response tells them
\* apart (lines 180-185): form "json" is 'data: ' followed by a JSON object,
\* "bad" is 'data: ' followed by text json.loads rejects, "blank" is 'data: '
\* followed by nothing but spaces, "other" is any line without the prefix.
\* Texts and ids are sequences of characters.
DataLine(event, answer, conversation_id, id, message) ==
    [form |-> "json", event |-> event, answer |-> answer,
     conversation_id |-> conversation_id, id |-> id, message |-> message]

\* the key 'message' is absent from an error event
Absent == "(absent)"

Message(answer, conversation_id, message_id) ==
    DataLine("message", answer, conversation_id, message_id, Absent)
MessageEnd(conversation_id, id) == DataLine("message_end", <<>>, conversation_id, id, Absent)
ErrorEvent(message) == DataLine("error", <<>>, None, None, message)
OtherEvent == DataLine("ping", <<>>, None, None, Absent)
BadLine == [DataLine("", <<>>, None, None, Absent) EXCEPT !.form = "bad"]
BlankLine == [DataLine("", <<>>, None, None, Absent) EXCEPT !.form = "blank"]
OtherLine == [DataLine("", <<>>, None, None, Absent) EXCEPT !.form = "other"]

QuotaExceeded == "quota exceeded"

StreamLines ==
    {Message(<<"H", "e", "l">>, None, None),
     Message(<<"l", "o", " ">>, <<"a">>, <<"m">>),
     Message(<<"w", "o", "r", "l", "d">>, <<"b">>, None),
     MessageEnd(<<"b">>, <<"n">>),
     ErrorEvent(QuotaExceeded), ErrorEvent(Absent),
     OtherEvent, BadLine, BlankLine, OtherLine}

Streams == UNION {[1..n -> StreamLines] : n \in 0..MaxLines}

\* what a streaming call that has not returned has returned
NoData == [answer |-> None, conversation_id |-> None, message_id |-> None]

\* _handle_streaming_response once the status code was found to be 200:
\* lines 174-176.  read counts the lines taken from iter_lines; error is the
\* text of the exception, as the sequence of its parts.
InitStream(lines) ==
    [pc |-> "reading", lines |-> lines, read |-> 0, full_answer |-> <<>>,
     conversation_id |-> None, message_id |-> None, warnings |-> 0,
     response_data |-> NoData, error |-> <<>>]

\* no GET /status has been answered
NoSnapshot == [live |-> FALSE, status |-> "none"]

\* no GET /stream has been made: the position of event_stream and the
\* status in the last snapshot it has yielded
NoSubscription == [pc |-> "none", emitted |-> "none"]

\* no streaming call is made
IdleStream == [InitStream(<<>>) EXCEPT !.pc = "idle"]

InitState ==
    /\ logclient = NoLogClient
    /\ snapshot = NoSnapshot
    /\ subscription = NoSubscription
    /\ manager = NewConversationManager
    /\ status = "idle"
    /\ task_id = 0
    /\ progress = ZeroProgress(0)
    /\ statistics = ZeroStatistics
    /\ logs = <<>>
    /\ end_time = FALSE
    /\ response = NoRequest
    /\ cur = 0
    /\ loop = [l \in Loops |-> InitLoop]
    /\ sink = <<>>
    /\ stopMark = [l \in Loops |-> -1]
    /\ cli = InitCli

\* one of the engines with its stored test cases, or one call of a function
\* decorated with retry_on_failure
Init ==
    /\ \/ /\ engine \in {"web", "cli"}
          /\ cases \in OneGroupLists
          /\ wrapper = InitWrapper(MaxWrapperRetries)
       \/ /\ engine = "wrapper"
          /\ cases = <<>>
          /\ wrapper \in {InitWrapper(n) : n \in 0..MaxWrapperRetries}
    /\ rounds = InOrderRounds(cases)
    /\ active_config = TRUE
    /\ stream = IdleStream
    /\ InitState

InitCtl ==
    /\ engine = "web"
    /\ cases \in OneGroupLists
    /\ active_config \in BOOLEAN
    /\ rounds = InOrderRounds(cases)
    /\ wrapper = InitWrapper(MaxWrapperRetries)
    /\ stream = IdleStream
    /\ InitState

InitConv ==
    /\ engine = "web"
    /\ cases \in CaseLists
    /\ active_config = TRUE
    /\ rounds = InOrderRounds(cases)
    /\ wrapper = InitWrapper(MaxWrapperRetries)
    /\ stream = IdleStream
    /\ InitState

\* ------------------------------------------------------ control handlers
\* mutant: the refusal is written to the log
RefuseLogged(refusals, op, detail) ==
    /\ refusals
    /\ response' = Rejected(op, detail)
    /\ logs' = add_log(logs, "error", detail)
    /\ UNCHANGED <<engine, cases, rounds, manager, logclient, snapshot, subscription, active_config, wrapper, stream, status, task_id, progress, statistics,
                   end_time, cur, loop, sink, stopMark, cli>>

\* mutant: the refusal ends the run
RefuseEnds(refusals, op, detail) ==
    /\ refusals
    /\ response' = Rejected(op, detail)
    /\ end_time' = TRUE
    /\ UNCHANGED <<engine, cases, rounds, manager, logclient, snapshot, subscription, active_config, wrapper, stream, status, task_id, progress, statistics,
                   logs, cur, loop, sink, stopMark, cli>>

\* A handler raises HTTPException before it has touched anything.
\* refusals: the clients also send the requests that are refused (a refused
\* request changes nothing but the answer the client gets).
Refuse(refusals, op, detail) ==
    /\ refusals
    /\ response' = Rejected(op, detail)
    /\ UNCHANGED <<engine, cases, rounds, manager, logclient, snapshot, subscription, active_config, wrapper, stream, status, task_id, progress, statistics,
                   logs, end_time, cur, loop, sink, stopMark, cli>>

\* POST /api/test/start.  background_tasks.add_task only schedules the
\* coroutine: it starts (LoopBegin) once the response has been sent.
start_test(maxStarts, refusals) ==
    /\ engine = "web" /\ cur = 0
    /\ IF status = "running" THEN Refuse(refusals, "start", "already running")
       ELSE IF cases = <<>> THEN Refuse(refusals, "start", "no test cases")
       ELSE IF ~active_config THEN Refuse(refusals, "start", "no active configuration")
       ELSE /\ task_id < maxStarts
            /\ status' = "running"
            /\ task_id' = task_id + 1
            /\ progress' = ZeroProgress(Len(cases))
            /\ statistics' = ZeroStatistics
            /\ end_time' = FALSE
            /\ logs' = add_log(add_log(<<>>, "info", "batch test started"),
                               "info", "configuration in use")
            /\ loop' = [loop EXCEPT ![task_id + 1].pc = "scheduled"]
            /\ response' = Accepted("start")
            /\ UNCHANGED <<engine, cases, rounds, manager, logclient, snapshot, subscription, active_config, wrapper, stream, cur, sink, stopMark, cli>>

\* POST /api/test/pause
pause_test(refusals) ==
    /\ engine = "web" /\ cur = 0
    /\ IF status # "running" THEN Refuse(refusals, "pause", "not running")
       ELSE /\ status' = "paused"
            /\ logs' = add_log(logs, "warning", "test paused")
            /\ response' = Accepted("pause")
            /\ UNCHANGED <<engine, cases, rounds, manager, logclient, snapshot, subscription, active_config, wrapper, stream, task_id, progress, statistics,
                           end_time, cur, loop, sink, stopMark, cli>>

\* POST /api/test/resume
resume_test(refusals) ==
    /\ engine = "web" /\ cur = 0
    /\ IF status # "paused" THEN Refuse(refusals, "resume", "not paused")
       ELSE /\ status' = "running"
            /\ logs' = add_log(logs, "info", "test resumed")
            /\ response' = Accepted("resume")
            /\ UNCHANGED <<engine, cases, rounds, manager, logclient, snapshot, subscription, active_config, wrapper, stream, task_id, progress, statistics,
                           end_time, cur, loop, sink, stopMark, cli>>

\* mutant: stop leaves the end time as it is
stop_test_without_end_time(refusals) ==
    /\ engine = "web" /\ cur = 0
    /\ IF status \notin {"running", "paused"} THEN Refuse(refusals, "stop", "not executing")
       ELSE /\ status' = "stopped"
            /\ logs' = add_log(logs, "error", "test stopped")
            /\ response' = Accepted("stop")
            /\ stopMark' = [stopMark EXCEPT ![task_id] = loop[task_id].begun]
            /\ UNCHANGED <<engine, cases, rounds, manager, logclient, snapshot, subscription, active_config, wrapper, stream, task_id, progress, statistics,
                           end_time, cur, loop, sink, cli>>

\* POST /api/test/stop
stop_test(refusals) ==
    /\ engine = "web" /\ cur = 0
    /\ IF status \notin {"running", "paused"} THEN Refuse(refusals, "stop", "not executing")
       ELSE /\ status' = "stopped"
            /\ end_time' = TRUE
            /\ logs' = add_log(logs, "error", "test stopped")
            /\ response' = Accepted("stop")
            /\ stopMark' = [stopMark EXCEPT ![task_id] = loop[task_id].begun]
            /\ UNCHANGED <<engine, cases, rounds, manager, logclient, snapshot, subscription, active_config, wrapper, stream, task_id, progress, statistics,
                           cur, loop, sink, cli>>

\* ------------------------------------------------- execute_test_cases
\* The background task starts: lines 184-242.  The initialisation raises
\* (module unavailable, key decryption, configuration) or succeeds.
\* mutant: the run goes on with the store of the run before it
previous_conversation_manager(l) == IF l > 1 THEN loop[l - 1].mapping ELSE EmptyMapping

\* the _conversation_mapping of the manager run l gets at line 221:
\* legacy_wrapper.create_conversation_manager returns a new ConversationManager
create_conversation_manager(l) == EmptyMapping

LoopBegin(l) ==
    /\ cur = 0
    /\ loop[l].pc = "scheduled"
    /\ \E initOK \in BOOLEAN :
        /\ loop' = [loop EXCEPT ![l].task = task_id,
                                ![l].mapping = IF initOK THEN create_conversation_manager(l)
                                               ELSE @,
                                ![l].pc = IF initOK THEN "top" ELSE "except"]
        /\ logs' = IF initOK THEN add_log(logs, "info", "engine initialised") ELSE logs
    /\ cur' = l
    /\ UNCHANGED <<engine, cases, rounds, manager, logclient, snapshot, subscription, active_config, wrapper, stream, status, task_id, progress, statistics,
                   end_time, response, sink, stopMark, cli>>

\* Head of the for loop, the pause wait and the stop check: lines 245-291.
LoopTop(l) ==
    /\ cur = l
    /\ loop[l].pc = "top"
    /\ IF loop[l].i > Len(cases)
       THEN /\ loop' = [loop EXCEPT ![l].pc = "save"]
            /\ UNCHANGED <<cur, logs>>
       ELSE IF status = "paused"
       THEN /\ loop' = [loop EXCEPT ![l].pc = "pause_sleep"]
            /\ cur' = 0
            /\ UNCHANGED logs
       ELSE IF status = "stopped"
       THEN /\ loop' = [loop EXCEPT ![l].pc = "save"]
            /\ logs' = add_log(logs, "warning", "test stopped by the user")
            /\ UNCHANGED cur
       ELSE /\ loop' = [loop EXCEPT
                  ![l].pc = "attempt",
                  ![l].attempt = 0,
                  ![l].api_response = NoResponse,
                  ![l].last_error = "",
                  ![l].begun = loop[l].i,
                  ![l].conversation_id =
                      get_conversation_id(loop[l].mapping, cases[loop[l].i])]
            /\ logs' = add_log(logs, "info", "executing case")
            /\ UNCHANGED cur
    /\ UNCHANGED <<engine, cases, rounds, manager, logclient, snapshot, subscription, active_config, wrapper, stream, status, task_id, progress, statistics,
                   end_time, response, sink, stopMark, cli>>

\* asyncio.sleep(1) of the pause wait returns: line 248
WakePause(l) ==
    /\ cur = 0
    /\ loop[l].pc = "pause_sleep"
    /\ loop' = [loop EXCEPT ![l].pc = "top"]
    /\ cur' = l
    /\ UNCHANGED <<engine, cases, rounds, manager, logclient, snapshot, subscription, active_config, wrapper, stream, status, task_id, progress, statistics,
                   logs, end_time, response, sink, stopMark, cli>>

\* the loop state after one call of send_chat_message with result out
AfterCall(lp, group, out) ==
    [lp EXCEPT
        !.api_response = IF out.kind = "error" THEN @ ELSE out,
        !.last_error = IF out.kind = "error" THEN out.message ELSE @,
        !.calls = @ + 1,
        !.called = lp.i,
        !.lastId = [lp.lastId EXCEPT ![group] = out.conversation_id],
        !.lastTruthy = IF out.kind = "dict" /\ Truthy(out.conversation_id)
                       THEN [@ EXCEPT ![group] = out.conversation_id] ELSE @,
        !.lastGood = IF out.kind = "dict" /\ Truthy(out.conversation_id)
                         /\ Strip(out.conversation_id) # <<>>
                     THEN [@ EXCEPT ![group] = out.conversation_id] ELSE @,
        !.lastReq = [sent |-> PayloadConversationId(lp.conversation_id),
                     prev |-> lp.lastId[group]]]

\* a failed attempt is followed by the delay and another attempt: lines 309
\* and 201 (otherwise the exception is raised again)
RetriesAfter(attempt) == attempt < max_retries - 1

\* One pass of the retry loop: lines 293-314.
\* mutant: the retry loop does not look at the status
StopObservedNever(st) == FALSE

\* the check at the head of every attempt: lines 295-297
StopObserved(st) == st = "stopped"

LoopAttempt(l, outcomes) ==
    /\ cur = l
    /\ loop[l].pc = "attempt"
    /\ IF StopObserved(status)
       THEN /\ loop' = [loop EXCEPT ![l].pc = "record", ![l].stopBreak = loop[l].i]
            /\ UNCHANGED <<cur, logs>>
       ELSE \E out \in outcomes :
            LET called == AfterCall(loop[l], cases[loop[l].i], out)
            IN  IF out.kind # "error"
                THEN /\ loop' = [loop EXCEPT ![l] = [called EXCEPT !.pc = "record"]]
                     /\ UNCHANGED <<cur, logs>>
                ELSE IF RetriesAfter(loop[l].attempt)
                THEN /\ loop' = [loop EXCEPT ![l] = [called EXCEPT !.pc = "retry_sleep",
                                                                   !.warned = @ + 1]]
                     /\ logs' = add_log(logs, "warning", "API call failed, retrying")
                     /\ cur' = 0
                ELSE /\ loop' = [loop EXCEPT ![l] = [called EXCEPT !.pc = "record",
                                                                   !.raised = TRUE]]
                     /\ UNCHANGED <<cur, logs>>
    /\ UNCHANGED <<engine, cases, rounds, manager, logclient, snapshot, subscription, active_config, wrapper, stream, status, task_id, progress, statistics,
                   end_time, response, sink, stopMark, cli>>

\* asyncio.sleep(retry_delay) returns: line 311, then the next attempt
WakeRetry(l) ==
    /\ cur = 0
    /\ loop[l].pc = "retry_sleep"
    /\ loop' = [loop EXCEPT ![l].pc = "attempt", ![l].attempt = loop[l].attempt + 1]
    /\ cur' = l
    /\ UNCHANGED <<engine, cases, rounds, manager, logclient, snapshot, subscription, active_config, wrapper, stream, status, task_id, progress, statistics,
                   logs, end_time, response, sink, stopMark, cli>>

\* mutant: a case that ends while the run is paused is not a success
CaseSucceededRunning(api_response, st) == ResponseTruthy(api_response) /\ st = "running"

\* the case counts as a success: line 320
CaseSucceeded(api_response, st) == ResponseTruthy(api_response) /\ st # "stopped"

\* mutant: a failed case is not counted as failed
NewProgressNoFailed(p, ok) ==
    [p EXCEPT !.success = IF ok THEN @ + 1 ELSE @,
              !.completed = @ + 1]

\* progress after one case: lines 332, 337, 342 and 349
NewProgress(p, ok) ==
    [p EXCEPT !.success = IF ok THEN @ + 1 ELSE @,
              !.failed = IF ok THEN @ ELSE @ + 1,
              !.completed = @ + 1]

\* statistics after one case: lines 352-359 (the response times are left out)
NewStatistics(st, timed, p) ==
    IF timed THEN [st EXCEPT !.success_rate = (p.success * 100) \div p.completed]
    ELSE st

\* mutant: the id of the response is stored whatever it is
NewMappingUnguarded(mapping, group, api_response) ==
    set_conversation_id(mapping, group, extract_conversation_id(api_response))

\* the mapping after a successful case: lines 327-329
NewMapping(mapping, group, api_response) ==
    LET new_conversation_id == extract_conversation_id(api_response)
    IN  IF Truthy(new_conversation_id)
        THEN set_conversation_id(mapping, group, new_conversation_id)
        ELSE mapping

\* error_details when no exception reached the handler: lines 336 and 229
NoValidResponse == "no valid API response received"

\* mutant: the handler records the fixed text instead of the exception
ErrorDetailsFixed(raised, last_error, ok) == IF ok THEN "" ELSE NoValidResponse

\* result['error_details']: lines 274, 336 and 341 (main.py 166, 229, 232)
ErrorDetails(raised, last_error, ok) ==
    IF raised THEN last_error
    ELSE IF ok THEN ""
    ELSE NoValidResponse

\* the result dict of one case: lines 264-276 and 317-343.  case is the
\* position of the test case in the list (case_id, row); timed: line 317
\* has set response_time, and line 318 has added it to response_times.
CaseResult(lp, ok) ==
    [case |-> lp.i,
     api_status |-> IF ok THEN "success" ELSE "failed",
     error_details |-> ErrorDetails(lp.raised, lp.last_error, ok),
     timed |-> ~lp.raised]

\* the inter-case delay is taken: line 362
TakesDelay(i, n, st) == i < n /\ st # "stopped"

\* The outcome of the case is recorded: lines 316-363 (the except clause of
\* line 340 included), with no await between the counters.
LoopRecord(l) ==
    /\ cur = l
    /\ loop[l].pc = "record"
    /\ LET lp == loop[l]
           ok == ~lp.raised /\ CaseSucceeded(lp.api_response, status)
           results == Append(lp.results, CaseResult(lp, ok))
           timed == \E k \in DOMAIN results : results[k].timed
           delay == TakesDelay(lp.i, Len(cases), status)
       IN  /\ progress' = NewProgress(progress, ok)
           /\ statistics' = NewStatistics(statistics, timed, progress')
           /\ logs' = IF ok THEN add_log(logs, "success", "case succeeded")
                      ELSE add_log(logs, "error", "case failed")
           /\ loop' = [loop EXCEPT ![l] = [lp EXCEPT
                  !.results = results,
                  !.mapping = IF ok THEN NewMapping(@, cases[lp.i], lp.api_response)
                              ELSE @,
                  !.api_response = NoResponse,
                  !.last_error = "",
                  !.raised = FALSE,
                  !.conversation_id = None,
                  !.attempt = 0,
                  !.calls = 0,
                  !.warned = 0,
                  !.i = @ + 1,
                  !.pc = IF delay THEN "case_sleep" ELSE "top"]]
           /\ cur' = IF delay THEN 0 ELSE cur
    /\ UNCHANGED <<engine, cases, rounds, manager, logclient, snapshot, subscription, active_config, wrapper, stream, status, task_id, end_time, response,
                   sink, stopMark, cli>>

\* asyncio.sleep(2) between two cases returns: line 363
WakeCase(l) ==
    /\ cur = 0
    /\ loop[l].pc = "case_sleep"
    /\ loop' = [loop EXCEPT ![l].pc = "top"]
    /\ cur' = l
    /\ UNCHANGED <<engine, cases, rounds, manager, logclient, snapshot, subscription, active_config, wrapper, stream, status, task_id, progress, statistics,
                   logs, end_time, response, sink, stopMark, cli>>

\* the record built at lines 366-375 or 396-405
\* (loop and afterStop are history: the writer, and whether stop() had been
\* accepted for its run)
\* mutant: the record is written without the results
TestRecordWithoutResults(l, st, et) ==
    [loop |-> l, afterStop |-> stopMark[l] >= 0,
     task_id |-> loop[l].task, status |-> st, end_time |-> et,
     progress |-> progress, results |-> <<>>]

TestRecord(l, st, et) ==
    [loop |-> l, afterStop |-> stopMark[l] >= 0,
     task_id |-> loop[l].task, status |-> st, end_time |-> et,
     progress |-> progress, results |-> loop[l].results]

\* mutant: an exception is raised after the record was written
AfterSaveRaises(written) == "except"

\* where execute_test_cases goes after storage.add_test_record at line 376:
\* on to line 378 when the record was written, into the handler of line 390
\* when the write raised
AfterSave(written) == IF written THEN "done" ELSE "except"

\* After the loop: lines 365-388.  storage.add_test_record writes the
\* history file or raises (_save_json re-raises).
LoopSave(l) ==
    /\ cur = l
    /\ loop[l].pc = "save"
    /\ \E written \in BOOLEAN :
        /\ sink' = IF written THEN Append(sink, TestRecord(l, status, end_time)) ELSE sink
        /\ IF AfterSave(written) = "done"
           THEN /\ status' = IF status = "running" THEN "completed" ELSE status
                /\ end_time' = IF status = "running" THEN TRUE ELSE end_time
                /\ logs' = IF status = "running"
                           THEN add_log(logs, "success", "test completed")
                           ELSE logs
                /\ loop' = [loop EXCEPT ![l].pc = "done",
                                        ![l].handed = Len(loop[l].results)]
                /\ cur' = 0
           ELSE /\ loop' = [loop EXCEPT ![l].pc = "except",
                                        ![l].handed = Len(loop[l].results)]
                /\ UNCHANGED <<status, end_time, logs, cur>>
    /\ UNCHANGED <<engine, cases, rounds, manager, logclient, snapshot, subscription, active_config, wrapper, stream, task_id, progress, statistics, response,
                   stopMark, cli>>

\* The handler of a run-level exception: lines 390-406.
LoopExcept(l) ==
    /\ cur = l
    /\ loop[l].pc = "except"
    /\ status' = "error"
    /\ end_time' = TRUE
    /\ logs' = add_log(logs, "error", "test execution error")
    /\ \E written \in BOOLEAN :
        sink' = IF written THEN Append(sink, TestRecord(l, "error", TRUE)) ELSE sink
    /\ loop' = [loop EXCEPT ![l].pc = "done", ![l].handed = Len(loop[l].results)]
    /\ cur' = 0
    /\ UNCHANGED <<engine, cases, rounds, manager, logclient, snapshot, subscription, active_config, wrapper, stream, task_id, progress, statistics, response,
                   stopMark, cli>>

LoopStep(l, outcomes) ==
    \/ LoopBegin(l)
    \/ LoopTop(l)
    \/ WakePause(l)
    \/ LoopAttempt(l, outcomes)
    \/ WakeRetry(l)
    \/ LoopRecord(l)
    \/ WakeCase(l)
    \/ LoopSave(l)
    \/ LoopExcept(l)

\* ------------------------------------------------- command-line engine
\* The API configuration the tool is started with: "invalid" (a key is
\* missing or the client cannot be built from it), "unreachable" (the client
\* is built, its test message fails) or "ok".
ApiConfigs == {"invalid", "unreachable", "ok"}

\* DifyClient.test_connection: lines 301-320, a pair (success, message)
test_connection(config) ==
    IF config = "ok" THEN <<TRUE, "connected">> ELSE <<FALSE, "connection failed">>

\* the truth value Python gives a tuple: it is true unless the tuple is empty
TupleTruthy(t) == t # <<>>

\* mutant: the first component of the pair is tested
initialize_dify_client_unpacked(config) ==
    IF config = "invalid" THEN FALSE
    ELSE test_connection(config)[1]

\* ChatflowTestTool.initialize_dify_client: lines 91-118.  An exception
\* while the client is built returns False; otherwise the result of
\* test_connection is tested as it is.
initialize_dify_client(config) ==
    IF config = "invalid" THEN FALSE
    ELSE TupleTruthy(test_connection(config))

\* run() up to the loop: lines 325-351.  The client cannot be initialised
\* or no test case is loaded: run() returns False.
CliInit ==
    /\ engine = "cli"
    /\ cli.pc = "init"
    /\ \E config \in ApiConfigs :
        cli' = IF initialize_dify_client(config) /\ cases # <<>>
               THEN [cli EXCEPT !.pc = "case", !.config = config,
                                !.stats.total_cases = Len(cases)]
               ELSE [cli EXCEPT !.pc = "done", !.config = config]
    /\ UNCHANGED <<engine, cases, rounds, manager, logclient, snapshot, subscription, active_config, wrapper, stream, webvars>>

\* self.stats after one case: lines 225, 229, 233 and 236
NewStats(st, ok) ==
    [st EXCEPT !.successful_cases = IF ok THEN @ + 1 ELSE @,
               !.failed_cases = IF ok THEN @ ELSE @ + 1,
               !.processed_cases = @ + 1]

\* process_test_case after the retry loop: lines 208-237
CliRecorded(c, group) ==
    LET ok == ~c.raised /\ ResponseTruthy(c.api_response)
    IN  [c EXCEPT
            !.stats = NewStats(@, ok),
            !.results = Append(@, CaseResult(c, ok)),
            !.mapping = IF ok THEN NewMapping(@, group, c.api_response) ELSE @,
            !.api_response = NoResponse,
            !.last_error = "",
            !.raised = FALSE,
            !.conversation_id = None,
            !.attempt = 0,
            !.i = @ + 1,
            !.pc = IF c.i < Len(cases) THEN "case" ELSE "finish"]

\* One pass of the retry loop of process_test_case: lines 170-206.
CliAttempt(outcomes) ==
    /\ engine = "cli"
    /\ cli.pc = "case"
    /\ \E out \in outcomes :
        LET group == cases[cli.i]
            first == cli.attempt = 0
            got == [cli EXCEPT
                       !.conversation_id = get_conversation_id(cli.mapping, group),
                       !.calls = IF first THEN 0 ELSE @,
                       !.warned = IF first THEN 0 ELSE @]
            called == AfterCall(got, group, out)
        IN  cli' = IF out.kind # "error"
                   THEN [called EXCEPT !.pc = "record"]
                   ELSE IF RetriesAfter(cli.attempt)
                   THEN [called EXCEPT !.attempt = @ + 1, !.warned = @ + 1]
                   ELSE [called EXCEPT !.pc = "record", !.raised = TRUE]
    /\ UNCHANGED <<engine, cases, rounds, manager, logclient, snapshot, subscription, active_config, wrapper, stream, webvars>>

\* ExcelHandler.append_result_to_file: lines 329-389.  The rows of the file
\* are read, the new row is added and the file is written again; any
\* exception is caught and False is returned, the file being left as it was.
append_result_to_file(file, result, written) ==
    IF written THEN Append(file, result) ELSE file

\* the delay between two cases of run(): line 364, i counting from 1
\* (enumerate(test_cases, 1) of line 353)
TakesCliDelay(i, n) == i < n - 1

\* The rest of process_test_case, lines 208-237, and of the loop body of
\* run(), lines 355-365: the result is appended to the list and handed to
\* append_result_to_file, whose outcome is not looked at; then the delay.
CliRecord ==
    /\ engine = "cli"
    /\ cli.pc = "record"
    /\ \E written \in BOOLEAN :
        LET recorded == CliRecorded(cli, cases[cli.i])
            result == recorded.results[Len(recorded.results)]
        IN  cli' = [recorded EXCEPT
                       !.file = append_result_to_file(@, result, written),
                       !.handed = @ + 1,
                       !.delays = IF TakesCliDelay(cli.i, Len(cases))
                                  THEN @ + 1 ELSE @]
    /\ UNCHANGED <<engine, cases, rounds, manager, logclient, snapshot, subscription, active_config, wrapper, stream, webvars>>

\* os.path.exists(full_output_path) of line 368: the file is there once
\* one call of append_result_to_file has written it
FileExists(file) == file # <<>>

\* save_results: lines 255-286.  create_result_file writes all the results
\* to a file of its own, or raises and False is returned.
save_results(results, saved) ==
    IF saved THEN results ELSE <<>>

\* run() after the loop: lines 368-388.  The fallback is taken only when
\* the result file does not exist; run() returns True when the file exists
\* or the fallback has saved the results.
CliFinish ==
    /\ engine = "cli"
    /\ cli.pc = "finish"
    /\ \E saved \in BOOLEAN :
        cli' = IF FileExists(cli.file)
               THEN [cli EXCEPT !.pc = "done", !.success = TRUE]
               ELSE [cli EXCEPT !.pc = "done", !.success = saved,
                                !.backup = save_results(cli.results, saved)]
    /\ UNCHANGED <<engine, cases, rounds, manager, logclient, snapshot, subscription, active_config, wrapper, stream, webvars>>

CliStep(outcomes) ==
    \/ CliInit
    \/ CliAttempt(outcomes)
    \/ CliRecord
    \/ CliFinish

\* ------------------------------------------------------ retry_on_failure
\* what one call of the wrapped function does: it returns, it raises an
\* exception of the types given to the decorator, or it raises another one
FuncOutcomes == {"returns", "raises", "raises another"}

\* One pass of the for loop of wrapper(): logger.py lines 251-261.
WrapperAttempt ==
    /\ engine = "wrapper"
    /\ wrapper.pc = "call"
    /\ \E out \in FuncOutcomes :
        LET called == [wrapper EXCEPT !.calls = @ + 1]
        IN  wrapper' =
                IF out = "returns" THEN [called EXCEPT !.pc = "returned"]
                ELSE IF out = "raises another" THEN [called EXCEPT !.pc = "raised"]
                ELSE IF wrapper.attempt = wrapper.max_retries
                THEN [called EXCEPT !.pc = "raised"]
                ELSE [called EXCEPT !.attempt = @ + 1]
    /\ UNCHANGED <<engine, cases, rounds, manager, logclient, snapshot, subscription, active_config, stream, webvars, cli>>

\* ------------------------------------------ _handle_streaming_response
\* mutant: a chunk is put in front of the text gathered so far
AccumulatePrepended(full_answer, answer_chunk) == answer_chunk \o full_answer

\* full_answer += answer_chunk: line 193
Accumulate(full_answer, answer_chunk) == full_answer \o answer_chunk

\* `if not x: x = value`: lines 196-199 and 203-206
FillIfMissing(x, value) == IF Truthy(x) THEN x ELSE value

\* lines 220-232: the call returns the merged response
Returned(st) ==
    [st EXCEPT !.pc = "returned",
               !.response_data = [answer |-> st.full_answer,
                                  conversation_id |-> st.conversation_id,
                                  message_id |-> st.message_id]]

\* event 'message': lines 190-199
OnMessage(st, line) ==
    [st EXCEPT !.full_answer = Accumulate(@, line.answer),
               !.conversation_id = FillIfMissing(@, line.conversation_id),
               !.message_id = FillIfMissing(@, line.id)]

\* event 'message_end': lines 201-207, the break leads to the return
OnMessageEnd(st, line) ==
    Returned([st EXCEPT !.conversation_id = FillIfMissing(@, line.conversation_id),
                        !.message_id = FillIfMissing(@, line.id)])

StreamProcessingFailed == "stream processing failed: "
StreamError == "stream error: "
UnknownError == "unknown error"

\* mutant: an error event is passed over like an unknown event
OnErrorIgnored(st, line) == st

\* event 'error': lines 209-211; the DifyAPIError raised there is caught by
\* the except clause of line 217 and wrapped in another one, line 218
OnError(st, line) ==
    LET error_msg == IF line.message = Absent THEN UnknownError ELSE line.message
    IN  [st EXCEPT !.pc = "raised",
                   !.error = <<StreamProcessingFailed, StreamError, error_msg>>]

\* mutant: a payload that is not JSON ends the reading
OnBadLineStops(st, line) == Returned(st)

\* json.loads raises JSONDecodeError: lines 213-215, a warning and continue
OnBadLine(st, line) == [st EXCEPT !.warnings = @ + 1]

\* the body of the for loop for one line: lines 180-215
ReadLine(st, line) ==
    IF line.form \in {"other", "blank"} THEN st
    ELSE IF line.form = "bad" THEN OnBadLine(st, line)
    ELSE IF line.event = "message" THEN OnMessage(st, line)
    ELSE IF line.event = "message_end" THEN OnMessageEnd(st, line)
    ELSE IF line.event = "error" THEN OnError(st, line)
    ELSE st

\* iter_lines yields the next line: line 179
StreamRead ==
    /\ engine = "client"
    /\ stream.pc = "reading"
    /\ stream.read < Len(stream.lines)
    /\ stream' = ReadLine([stream EXCEPT !.read = @ + 1], stream.lines[stream.read + 1])
    /\ UNCHANGED <<engine, cases, rounds, manager, logclient, snapshot, subscription, active_config, wrapper, webvars, cli>>

\* iter_lines is exhausted: the for loop ends and the call returns
StreamEnd ==
    /\ engine = "client"
    /\ stream.pc = "reading"
    /\ stream.read = Len(stream.lines)
    /\ stream' = Returned(stream)
    /\ UNCHANGED <<engine, cases, rounds, manager, logclient, snapshot, subscription, active_config, wrapper, webvars, cli>>

ConnectionBroken == "connection broken"

\* iter_lines raises (the connection breaks while the body is read): the
\* except clause of line 217 turns the exception into a DifyAPIError
StreamBroken ==
    /\ engine = "client"
    /\ stream.pc = "reading"
    /\ stream' = [stream EXCEPT !.pc = "raised",
                                !.error = <<StreamProcessingFailed, ConnectionBroken>>]
    /\ UNCHANGED <<engine, cases, rounds, manager, logclient, snapshot, subscription, active_config, wrapper, webvars, cli>>

\* ---------------------------------- a ConversationManager used on its own
\* ids given to set_conversation_id
StoreIds == {<<>>, <<"a">>, <<"b">>}

\* the turns a manager holds, over all groups
TotalTurns(turns) == Len(turns["g1"]) + Len(turns["g2"])

\* a call of add_turn with any group, turn number and status
ManagerAddTurn ==
    /\ engine = "manager"
    /\ TotalTurns(manager.turns) < MaxTurns
    /\ \E g \in Groups, n \in 1..MaxTurns, st \in {"success", "failed"} :
        manager' = [manager EXCEPT !.turns = add_turn(@, g, n, st)]
    /\ UNCHANGED <<engine, cases, rounds, logclient, snapshot, subscription, active_config, wrapper, stream, webvars, cli>>

\* a call of set_conversation_id: lines 43-57
ManagerSetId ==
    /\ engine = "manager"
    /\ \E g \in Groups, id \in StoreIds :
        manager' = [manager EXCEPT !.mapping = set_conversation_id(@, g, id)]
    /\ UNCHANGED <<engine, cases, rounds, logclient, snapshot, subscription, active_config, wrapper, stream, webvars, cli>>

\* a call of clear_conversation: lines 183-199
ManagerClear ==
    /\ engine = "manager"
    /\ \E g \in Groups :
        manager' = [mapping |-> [manager.mapping EXCEPT ![g] = None],
                    turns |-> [manager.turns EXCEPT ![g] = <<>>]]
    /\ UNCHANGED <<engine, cases, rounds, logclient, snapshot, subscription, active_config, wrapper, stream, webvars, cli>>

\* a call of clear_all_conversations: lines 201-209
ManagerClearAll ==
    /\ engine = "manager"
    /\ manager' = NewConversationManager
    /\ UNCHANGED <<engine, cases, rounds, logclient, snapshot, subscription, active_config, wrapper, stream, webvars, cli>>

\* ------------------------------------------------- the log on its own
LogLevels == {"info", "warning", "error"}

\* some code calls add_log
LogAppend ==
    /\ engine = "log"
    /\ Len(logclient.appended) < MaxAppends
    /\ \E level \in LogLevels :
        /\ logs' = add_log(logs, level, "message")
        /\ logclient' = [logclient EXCEPT
                !.appended = Append(@, [level |-> level, message |-> "message"])]
    /\ UNCHANGED <<engine, cases, rounds, manager, snapshot, subscription, active_config, wrapper, stream, status,
                   task_id, progress, statistics, end_time, response, cur, loop, sink,
                   stopMark, cli>>

\* GET /logs?limit=..: lines 155-159
LogsRequest ==
    /\ engine = "log"
    /\ \E limit \in -1..(MaxLogEntries + 1) :
        logclient' = [logclient EXCEPT !.requests = (@ + 1) % 2,
                                       !.limit = limit,
                                       !.data = get_test_logs(logs, limit)]
    /\ UNCHANGED <<engine, cases, rounds, manager, snapshot, subscription, active_config, wrapper, stream, webvars, cli>>

Control(maxStarts, refusals) ==
    \/ start_test(maxStarts, refusals)
    \/ pause_test(refusals)
    \/ resume_test(refusals)
    \/ stop_test(refusals)

\* either engine; the web engine with every interleaving of the control
\* operations
Next ==
    \/ Control(MaxStarts, FALSE)
    \/ \E l \in Loops : LoopStep(l, PlainOutcomes)
    \/ CliStep(PlainOutcomes)
    \/ WrapperAttempt

Spec == Init /\ [][Next]_vars

\* one run of the web engine with every conversation id a response can carry
NextConv ==
    \/ Control(1, FALSE)
    \/ \E l \in Loops : LoopStep(l, IdOutcomes)

SpecConv == InitConv /\ [][NextConv]_vars

\* one run of the web engine, the clients sending every control request in
\* every status, with and without test cases and an active configuration
NextCtl ==
    \/ Control(1, TRUE)
    \/ \E l \in Loops : LoopStep(l, PlainOutcomes)

SpecCtl == InitCtl /\ [][NextCtl]_vars

\* One streaming call of the client on any stream of at most MaxLines lines.
InitClient ==
    /\ engine = "client"
    /\ cases = <<>>
    /\ rounds = <<>>
    /\ active_config = TRUE
    /\ wrapper = InitWrapper(MaxWrapperRetries)
    /\ stream \in {InitStream(lines) : lines \in Streams}
    /\ InitState

NextClient == StreamRead \/ StreamEnd \/ StreamBroken

SpecClient == InitClient /\ [][NextClient]_vars

\* the conversation id the server gives in run l: a server makes a new id
\* for every new conversation, so the ids of two runs differ
RunId(l) == [k \in 1..l |-> "r"]

RunOutcomes(l) == {RaisedError(TimeoutMessage), DictWith(RunId(l))}

\* Runs of the web engine one after the other, each given its own ids.
InitRuns ==
    /\ engine = "web"
    /\ cases \in OneGroupLists
    /\ rounds = InOrderRounds(cases)
    /\ active_config = TRUE
    /\ wrapper = InitWrapper(MaxWrapperRetries)
    /\ stream = IdleStream
    /\ InitState

NextRuns ==
    \/ Control(MaxStarts, FALSE)
    \/ \E l \in Loops : LoopStep(l, RunOutcomes(l))

SpecRuns == InitRuns /\ [][NextRuns]_vars

\* Entries appended to the log and readers asking for its last entries.
InitLog ==
    /\ engine = "log"
    /\ cases = <<>>
    /\ rounds = <<>>
    /\ active_config = TRUE
    /\ wrapper = InitWrapper(MaxWrapperRetries)
    /\ stream = IdleStream
    /\ InitState

NextLog == LogAppend \/ LogsRequest

SpecLog == InitLog /\ [][NextLog]_vars

\* The methods of one ConversationManager called in any order.
InitStore ==
    /\ engine = "manager"
    /\ cases = <<>>
    /\ rounds = <<>>
    /\ active_config = TRUE
    /\ wrapper = InitWrapper(MaxWrapperRetries)
    /\ stream = IdleStream
    /\ InitState

NextStore == ManagerAddTurn \/ ManagerSetId \/ ManagerClear \/ ManagerClearAll

SpecStore == InitStore /\ [][NextStore]_vars

\* One run of either engine on cases of one group with any turn numbers.
InitTurns ==
    /\ engine \in {"web", "cli"}
    /\ cases \in OneGroupLists
    /\ rounds \in [DOMAIN cases -> 1..MaxTurns]
    /\ active_config = TRUE
    /\ wrapper = InitWrapper(MaxWrapperRetries)
    /\ stream = IdleStream
    /\ InitState

NextTurns ==
    \/ Control(1, FALSE)
    \/ \E l \in Loops : LoopStep(l, PlainOutcomes)
    \/ CliStep(PlainOutcomes)

SpecTurns == InitTurns /\ [][NextTurns]_vars

\* one run of either engine, the API calls failing with every error message
NextRetry ==
    \/ Control(1, FALSE)
    \/ \E l \in Loops : LoopStep(l, RetryOutcomes)
    \/ CliStep(RetryOutcomes)
    \/ WrapperAttempt

SpecRetry == Init /\ [][NextRetry]_vars

\* ================================================================ claims
Terminal == {"completed", "stopped", "error"}

\* a coroutine that has been launched and has not returned
Alive(l) == loop[l].pc \notin {"unborn", "done"}

\* ------------------------------------------------ GET /status, GET /stream
\* mutant: the client is given the dictionary execution_state itself
SharedDictionary(st, tid, p, s, lg, et) ==
    [live |-> TRUE, status |-> st, task_id |-> tid, progress |-> p,
     statistics |-> s, logs |-> lg, end_time |-> et]

\* execution_state written out as JSON, by the response of line 153 and by
\* json.dumps of line 167: a text holding the values the dictionary has at
\* that moment (live: the data are the dictionary itself)
JsonDump(st, tid, p, s, lg, et) ==
    [live |-> FALSE, status |-> st, task_id |-> tid, progress |-> p,
     statistics |-> s, logs |-> lg, end_time |-> et]

\* GET /status: lines 150-153.  The handler has no await.
get_test_status ==
    /\ engine = "web" /\ cur = 0
    /\ snapshot' = JsonDump(status, task_id, progress, statistics, logs, end_time)
    /\ UNCHANGED <<engine, cases, rounds, manager, logclient, subscription, active_config,
                   wrapper, stream, webvars, cli>>

\* GET /stream: lines 161-180.  The response is made of the generator
\* event_stream, which has not run yet.
stream_test_status ==
    /\ engine = "web" /\ cur = 0
    /\ subscription.pc = "none"
    /\ subscription' = [subscription EXCEPT !.pc = "start"]
    /\ UNCHANGED <<engine, cases, rounds, manager, logclient, snapshot, active_config,
                   wrapper, stream, webvars, cli>>

\* event_stream up to its yield: lines 165-168 (after line 174 when it has
\* slept).  The generator stays at the yield until the response has sent
\* the snapshot and asks for the next one.
EventStreamYield ==
    /\ engine = "web" /\ cur = 0
    /\ subscription.pc \in {"start", "sleep"}
    /\ subscription' = [subscription EXCEPT
            !.pc = "yield",
            !.emitted = JsonDump(status, task_id, progress, statistics, logs,
                                 end_time).status]
    /\ UNCHANGED <<engine, cases, rounds, manager, logclient, snapshot, active_config,
                   wrapper, stream, webvars, cli>>

\* event_stream from its yield on: lines 170-174.  The status of
\* execution_state is read again; the stream ends or sleeps one second.
EventStreamResume ==
    /\ engine = "web" /\ cur = 0
    /\ subscription.pc = "yield"
    /\ subscription' = [subscription EXCEPT
            !.pc = IF status \in Terminal THEN "ended" ELSE "sleep"]
    /\ UNCHANGED <<engine, cases, rounds, manager, logclient, snapshot, active_config,
                   wrapper, stream, webvars, cli>>

event_stream == EventStreamYield \/ EventStreamResume

\* one run of the web engine while clients poll the status and one client
\* subscribes to the stream of snapshots
NextStatus ==
    \/ Control(1, FALSE)
    \/ \E l \in Loops : LoopStep(l, PlainOutcomes)
    \/ get_test_status
    \/ stream_test_status
    \/ event_stream

SpecStatus == Init /\ [][NextStatus]_vars

\* a status reader runs: the event loop is free
Observable == engine = "web" /\ cur = 0

\* C1: at every point where a status reader can observe the run state,
\* success + failed = completed; in the command-line engine
\* successful_cases + failed_cases = processed_cases after every case.
C1_SuccessPlusFailedIsCompleted ==
    /\ Observable => progress.success + progress.failed = progress.completed
    /\ cli.stats.successful_cases + cli.stats.failed_cases = cli.stats.processed_cases

\* C1 witness: a second run, after a control operation ended the first, has
\* recorded a successful and a failed case.
C1_Witness ==
    /\ Observable
    /\ task_id = 2
    /\ progress.success >= 1
    /\ progress.failed >= 1

\* C2: at every observable point completed <= total, total being the number
\* of cases of the most recently accepted start.
C2_CompletedAtMostTotal ==
    Observable => progress.completed <= progress.total

\* the status graph of the run state machine
StatusGraph ==
    {<<"idle", "running">>,
     <<"running", "paused">>, <<"running", "completed">>,
     <<"running", "stopped">>, <<"running", "error">>,
     <<"paused", "running">>, <<"paused", "stopped">>}

\* the step is an accepted start()
StartAccepted == task_id' = task_id + 1 /\ status' = "running"

\* C3: every change of the status follows the graph, and a terminal status
\* is left only through an accepted start().
C3_StatusFollowsGraph ==
    [][status' # status =>
        IF status \in Terminal THEN StartAccepted
        ELSE <<status, status'>> \in StatusGraph]_vars

\* C4: a run never ends with its processing loop finished while the status
\* is still running or paused.
C4_FinishedRunIsTerminal ==
    (engine = "web" /\ task_id > 0 /\ loop[task_id].pc = "done") => status \in Terminal

\* C5: at any time at most one processing loop has been launched and has
\* not finished.
C5_AtMostOneLoop == Cardinality({l \in Loops : Alive(l)}) <= 1

\* C6 (as stated): when the previous call of the group returned the id X,
\* the next request of the group carries X.
C6_NextCallCarriesReturnedId ==
    \A l \in Loops :
        Truthy(loop[l].lastReq.prev) => loop[l].lastReq.sent = loop[l].lastReq.prev

\* C6 (amended): when the previous call of the group returned the id X, and
\* X without its surrounding whitespace is neither empty nor the literal
\* 'new', the next request of the group carries X without its surrounding
\* whitespace.
C6_NextCallCarriesStrippedId ==
    \A l \in Loops :
        LET x == loop[l].lastReq.prev
        IN  (Truthy(x) /\ Strip(x) \notin {<<>>, NewLiteral})
                => loop[l].lastReq.sent = Strip(x)

\* C6 witness: a call returned " a" and the next request of the group
\* carried "a".
C6_Witness ==
    \E l \in Loops :
        /\ loop[l].lastReq.prev = <<" ", "a">>
        /\ loop[l].lastReq.sent = <<"a">>

\* C7: while the status stays paused, completed keeps its value and no case
\* result is produced.
C7_PausedFreezesCompleted ==
    [][(status = "paused" /\ status' = "paused") =>
        /\ progress'.completed = progress.completed
        /\ \A l \in Loops : loop'[l].results = loop[l].results]_vars

\* C8: while the status stays stopped, completed keeps the value it had
\* when stop() was accepted.
C8_StoppedFreezesCompleted ==
    [][(status = "stopped" /\ status' = "stopped") =>
        progress'.completed = progress.completed]_vars

\* C9: after stop() was accepted for a run, its loop makes no API call for
\* a case that had not begun when stop() was accepted.
C9_NoCallForCasesNotBegun ==
    \A l \in Loops : stopMark[l] >= 0 => loop[l].called <= stopMark[l]

\* the records a loop wrote to the history after stop() was accepted for
\* its run
WritesAfterStop(l) == {k \in DOMAIN sink : sink[k].loop = l /\ sink[k].afterStop}

\* C10 (as stated): after stop() was accepted for a run, nothing more is
\* written to the result sink for that run.
C10_NoWriteAfterStop == \A l \in Loops : WritesAfterStop(l) = {}

\* C10 (amended): after stop() was accepted for a run, its loop writes at
\* most one record to the result sink, the run record written when the loop
\* has exited.
C10_OneRunRecordAfterStop ==
    \A l \in Loops :
        /\ Cardinality(WritesAfterStop(l)) <= 1
        /\ \A k \in WritesAfterStop(l) : loop[l].pc \in {"done", "except"}

\* C10 witness: a stopped run whose loop has returned and has written its
\* record after the stop.
C10_Witness ==
    \E l \in Loops :
        /\ WritesAfterStop(l) # {}
        /\ loop[l].pc = "done"
        /\ status = "stopped"

\* the step is the run of a request handler: the event loop is free before
\* and after it (a step of a coroutine takes or releases the event loop)
HandlerStep == cur = 0 /\ cur' = 0

\* the step is a request op answered with a refusal
RefusedStep(op) ==
    /\ HandlerStep
    /\ response'.op = op
    /\ response'.status_code = 400

\* the step is a request op answered with success
AcceptedStep(op) == HandlerStep /\ response' = Accepted(op)

\* the step leaves the execution state, the coroutines and the history
\* file as they are
StateKept ==
    UNCHANGED <<status, task_id, progress, statistics, logs, end_time, loop, sink>>

\* C11: start() is not accepted when the status is running, when there is
\* no test case or when no configuration is active; a refused start()
\* leaves status, task id, progress, statistics, logs and end time as they
\* are and schedules no processing loop.
C11_RefusedStartChangesNothing ==
    [][/\ (status = "running" \/ cases = <<>> \/ ~active_config) => ~AcceptedStep("start")
       /\ RefusedStep("start") => StateKept]_vars

\* C11 witness: start() was refused while a run was executing its cases.
C11_Witness ==
    /\ response = Rejected("start", "already running")
    /\ status = "running"
    /\ progress.completed >= 1

\* C12: pause() is accepted only in status running, resume() only in status
\* paused, stop() only in status running or paused; a refused pause(),
\* resume() or stop() leaves the whole execution state as it is.
C12_RefusedControlChangesNothing ==
    [][/\ AcceptedStep("pause") => status = "running"
       /\ AcceptedStep("resume") => status = "paused"
       /\ AcceptedStep("stop") => status \in {"running", "paused"}
       /\ \A op \in {"pause", "resume", "stop"} : RefusedStep(op) => StateKept]_vars

\* C12 witness: resume() was refused after the run had been stopped with
\* results recorded and its end time set.
C12_Witness ==
    /\ response = Rejected("resume", "not paused")
    /\ status = "stopped"
    /\ end_time
    /\ progress.completed >= 1

\* the positions of the test cases a loop has results for, in the order of
\* the results
ResultCases(l) == [k \in DOMAIN loop[l].results |-> loop[l].results[k].case]

RecordStep(l) == loop[l].pc = "record" /\ loop'[l].pc # "record"

\* the step is the command-line engine recording the outcome of its case
CliRecordStep == cli.pc = "record" /\ cli'.pc # "record"

\* the last call of the case returned a response (a non-empty dict)
Answered(lp) == ~lp.raised /\ ResponseTruthy(lp.api_response)

C15_RetryExhaustion ==
    [][/\ \A l \in Loops :
            (RecordStep(l) /\ loop[l].raised) =>
                /\ loop[l].calls = max_retries
                /\ Len(loop'[l].results) = Len(loop[l].results) + 1
                /\ loop'[l].results[Len(loop'[l].results)] =
                        [case |-> loop[l].i, api_status |-> "failed",
                         error_details |-> loop[l].last_error, timed |-> FALSE]
                /\ loop[l].last_error \in ErrorMessages
                /\ progress'.failed = progress.failed + 1
                /\ progress'.success = progress.success
                /\ status' = status
                /\ loop'[l].i = loop[l].i + 1
                /\ loop'[l].pc \in {"top", "case_sleep"}
       /\ (CliRecordStep /\ cli.raised) =>
                /\ cli.calls = max_retries
                /\ Len(cli'.results) = Len(cli.results) + 1
                /\ cli'.results[Len(cli'.results)] =
                        [case |-> cli.i, api_status |-> "failed",
                         error_details |-> cli.last_error, timed |-> FALSE]
                /\ cli.last_error \in ErrorMessages
                /\ cli'.stats.failed_cases = cli.stats.failed_cases + 1
                /\ cli'.stats.successful_cases = cli.stats.successful_cases
                /\ cli'.i = cli.i + 1
                /\ cli'.pc \in {"case", "finish"}]_vars

\* C15 witness: the first case failed on all its calls, the last of them
\* with the JSON error; the run is still running and has begun case 2.
C15_Witness ==
    \E l \in Loops :
        /\ Len(loop[l].results) = 1
        /\ loop[l].results[1].api_status = "failed"
        /\ loop[l].results[1].error_details = JSONDecodeMessage
        /\ progress.failed = 1
        /\ status = "running"
        /\ loop[l].begun = 2

\* C16: one logical API call is attempted at most max_retries times: a
\* case of either engine has at most max_retries calls of send_chat_message,
\* and a function decorated with retry_on_failure(max_retries = n) is called
\* at most n times.
C16_AtMostMaxRetriesCalls ==
    /\ \A l \in Loops : loop[l].calls <= max_retries
    /\ cli.calls <= max_retries
    /\ wrapper.calls <= wrapper.max_retries

\* the part of C16 about the inline retry loops of the two engines
InlineLoopsWithinMaxRetries ==
    /\ \A l \in Loops : loop[l].calls <= max_retries
    /\ cli.calls <= max_retries

\* C17: a call that failed because the response body is not valid JSON is not
\* attempted again: no further call is made for the case, and the case is
\* recorded as failed after that single call.
C17_MalformedResponseNotRetried ==
    [][/\ \A l \in Loops :
            /\ loop[l].last_error = JSONDecodeMessage =>
                    loop'[l].calls <= loop[l].calls
            /\ (RecordStep(l) /\ loop[l].last_error = JSONDecodeMessage) =>
                    /\ loop[l].calls = 1
                    /\ loop'[l].results[Len(loop'[l].results)].api_status = "failed"
       /\ cli.last_error = JSONDecodeMessage => cli'.calls <= cli.calls
       /\ (CliRecordStep /\ cli.last_error = JSONDecodeMessage) =>
                /\ cli.calls = 1
                /\ cli'.results[Len(cli'.results)].api_status = "failed"
      ]_vars

\* the step is an attempt of the retry loop of run l
AttemptStep(l) == loop[l].pc = "attempt" /\ loop'[l] # loop[l]

\* C18: when the status is stopped as an attempt of a case is about to begin,
\* no call is made, the retry loop ends without an exception (the case goes
\* on to be recorded with the no-response text, not with an error raised),
\* and from then on the loop begins no other case and makes no other call.
C18_StopEndsRetryLoop ==
    [][\A l \in Loops :
        /\ (AttemptStep(l) /\ status = "stopped") =>
                /\ loop'[l].calls = loop[l].calls
                /\ loop'[l].called = loop[l].called
                /\ loop'[l].pc = "record"
                /\ ~loop'[l].raised
                /\ loop'[l].stopBreak = loop[l].i
        /\ (RecordStep(l) /\ loop[l].stopBreak = loop[l].i) =>
                /\ loop'[l].results[Len(loop'[l].results)].api_status = "failed"
                /\ loop'[l].results[Len(loop'[l].results)].error_details = NoValidResponse
        /\ loop[l].stopBreak > 0 =>
                /\ loop'[l].begun = loop[l].begun
                /\ loop'[l].called = loop[l].called
                /\ loop'[l].pc \notin {"attempt", "retry_sleep"}
      ]_vars

\* the first case of two was given up at a retry because of a stop, after
\* one failed call, and the loop has ended with the second case never begun
C18_Witness ==
    \E l \in Loops :
        /\ loop[l].pc = "done"
        /\ loop[l].stopBreak = 1
        /\ Len(cases) = 2
        /\ loop[l].begun = 1
        /\ Len(loop[l].results) = 1
        /\ loop[l].results[1].error_details = NoValidResponse

\* a stop is only ever seen at a retry, after at least one call of the case
StopSeenOnlyAtRetry ==
    \A l \in Loops :
        (loop[l].pc = "record" /\ loop[l].stopBreak = loop[l].i) => loop[l].calls >= 1

\* the line is a parsed event of the given type
IsEvent(line, event) == line.form = "json" /\ line.event = event

\* the position of the first event of one of the types, or Len(lines) + 1
FirstEvent(lines, events) ==
    LET at == {k \in DOMAIN lines : \E e \in events : IsEvent(lines[k], e)}
    IN  IF at = {} THEN Len(lines) + 1
        ELSE CHOOSE k \in at : \A j \in at : k <= j

RECURSIVE AnswersUpTo(_, _)
\* the answer fields of the message events among the first n lines, in order
AnswersUpTo(lines, n) ==
    IF n = 0 THEN <<>>
    ELSE AnswersUpTo(lines, n - 1)
            \o (IF IsEvent(lines[n], "message") THEN lines[n].answer ELSE <<>>)

\* C19: the answer a streaming call returns is the concatenation, in order,
\* of the answer fields of the message events before the first message_end
\* (or the end of the stream), and no line after the message_end is read.
C19_StreamingAggregation ==
    stream.pc = "returned" =>
        LET end == FirstEvent(stream.lines, {"message_end"})
        IN  /\ stream.response_data.answer = AnswersUpTo(stream.lines, end - 1)
            /\ stream.read = IF end > Len(stream.lines) THEN Len(stream.lines) ELSE end

\* chunks "Hel", "lo ", "world" then message_end have given "Hello world"
C19_Witness ==
    /\ stream.pc = "returned"
    /\ stream.lines = <<Message(<<"H", "e", "l">>, None, None),
                        Message(<<"l", "o", " ">>, <<"a">>, <<"m">>),
                        Message(<<"w", "o", "r", "l", "d">>, <<"b">>, None),
                        MessageEnd(<<"b">>, <<"n">>)>>
    /\ stream.response_data.answer =
            <<"H", "e", "l", "l", "o", " ", "w", "o", "r", "l", "d">>

\* C20: once an error event that no message_end precedes has been read, the
\* call has failed, at that line, with an error that carries the message of
\* the server, and nothing of the stream is returned.
C20_StreamErrorFailsCall ==
    LET first == FirstEvent(stream.lines, {"message_end", "error"})
    IN  (first <= stream.read /\ IsEvent(stream.lines[first], "error")) =>
            /\ stream.pc = "raised"
            /\ stream.read = first
            /\ Len(stream.error) = 3
            /\ stream.error[3] =
                    (IF stream.lines[first].message = Absent THEN UnknownError
                     ELSE stream.lines[first].message)
            /\ stream.response_data = NoData

\* an error event came after answer text and ids had been gathered
C20_Witness ==
    /\ stream.pc = "raised"
    /\ stream.read = 3
    /\ IsEvent(stream.lines[3], "error")
    /\ stream.lines[3].message = QuotaExceeded
    /\ stream.full_answer = <<"H", "e", "l", "l", "o", " ">>
    /\ stream.conversation_id = <<"a">>
    /\ stream.error = <<StreamProcessingFailed, StreamError, QuotaExceeded>>

RECURSIVE RunStream(_)
\* the streaming call carried through on an unbroken connection
RunStream(st) ==
    IF st.pc # "reading" THEN st
    ELSE IF st.read = Len(st.lines) THEN Returned(st)
    ELSE RunStream(ReadLine([st EXCEPT !.read = @ + 1], st.lines[st.read + 1]))

\* what the caller of a streaming call gets: the data returned or the error
Outcome(st) == [pc |-> st.pc, response_data |-> st.response_data, error |-> st.error]

\* the stream without its data lines whose payload is not JSON
WithoutBadLines(lines) == SelectSeq(lines, LAMBDA line : line.form # "bad")

\* the call has ended otherwise than by a broken connection
EndedOnStream(st) ==
    st.pc = "returned" \/ (st.pc = "raised" /\ st.error[Len(st.error)] # ConnectionBroken)

\* C21: a data line whose payload is not valid JSON is skipped: the call ends
\* as it does on the same stream without such lines (same answer, ids and
\* success or failure), whatever else the stream holds.
C21_BadLineSkipped ==
    EndedOnStream(stream) =>
        Outcome(stream) = Outcome(RunStream(InitStream(WithoutBadLines(stream.lines))))

\* a line that is not JSON stood between two chunks of a returned answer
C21_Witness ==
    /\ stream.pc = "returned"
    /\ stream.lines = <<Message(<<"H", "e", "l">>, None, None),
                        BadLine,
                        Message(<<"l", "o", " ">>, <<"a">>, <<"m">>),
                        MessageEnd(<<"b">>, <<"n">>)>>
    /\ stream.warnings = 1
    /\ stream.response_data = [answer |-> <<"H", "e", "l", "l", "o", " ">>,
                               conversation_id |-> <<"a">>, message_id |-> <<"m">>]

\* the turn numbers of the cases of a group among the results, in the order
\* in which the engine processed them
SubmittedTurns(results, group) ==
    LET ofGroup == SelectSeq(results, LAMBDA r : cases[r.case] = group)
    IN  [k \in DOMAIN ofGroup |-> rounds[ofGroup[k].case]]

\* the turn numbers a store holds for a group, in the order of its records
RecordedTurns(turns, group) ==
    [k \in DOMAIN turns[group] |-> turns[group][k].turn_number]

\* C22: after the engine has processed turns 1..N of a group in order, the
\* store of the run holds N turn records for the group, in that order.
C22_TurnsRecordedInOrder ==
    /\ \A l \in Loops : \A g \in Groups :
            /\ get_turn_count(loop[l].turns, g) = Len(SubmittedTurns(loop[l].results, g))
            /\ RecordedTurns(loop[l].turns, g) = SubmittedTurns(loop[l].results, g)
    /\ \A g \in Groups :
            /\ get_turn_count(cli.turns, g) = Len(SubmittedTurns(cli.results, g))
            /\ RecordedTurns(cli.turns, g) = SubmittedTurns(cli.results, g)

\* add_turn called on a manager appends one record to one group and leaves
\* every record the manager held in place
AddTurnAppends ==
    [][(\E g \in Groups : Len(manager'.turns[g]) > Len(manager.turns[g])) =>
        \E g \in Groups :
            /\ Len(manager'.turns[g]) = Len(manager.turns[g]) + 1
            /\ SubSeq(manager'.turns[g], 1, Len(manager.turns[g])) = manager.turns[g]
            /\ \A h \in Groups \ {g} : manager'.turns[h] = manager.turns[h]
      ]_vars

\* the turn numbers of the cases of a group for which an API call was made
\* (every case up to the last one called), in order
CalledTurns(called, group) ==
    LET ofGroup == SelectSeq([k \in 1..called |-> k], LAMBDA k : cases[k] = group)
    IN  [j \in DOMAIN ofGroup |-> rounds[ofGroup[j]]]

\* C23: a case whose turn number is not one more than the turns its group
\* has had is rejected without an API call: the turn numbers of the cases
\* the engine called the API for are 1, 2, .., N within every group.
C23_OutOfOrderTurnRejected ==
    /\ \A l \in Loops : \A g \in Groups :
            CalledTurns(loop[l].called, g) =
                [j \in DOMAIN CalledTurns(loop[l].called, g) |-> j]
    /\ \A g \in Groups :
            CalledTurns(cli.called, g) = [j \in DOMAIN CalledTurns(cli.called, g) |-> j]

\* the turn numbers a manager holds for a group are 1, 2, .., N
StoreTurnsContiguous ==
    \A g \in Groups :
        RecordedTurns(manager.turns, g) = [j \in DOMAIN manager.turns[g] |-> j]

\* C24: the id stored for a group changes only when a case of that group is
\* recorded as a success whose response carries a conversation_id that is
\* not empty once stripped, which is then the id stored; a group that has a
\* non-empty id keeps a non-empty id.
C24_StoredIdNeverEmptied ==
    [][\A l \in Loops : \A g \in Groups :
        /\ loop'[l].mapping[g] # loop[l].mapping[g] =>
                /\ RecordStep(l)
                /\ cases[loop[l].i] = g
                /\ Answered(loop[l])
                /\ loop'[l].results[Len(loop'[l].results)].api_status = "success"
                /\ Truthy(loop[l].api_response.conversation_id)
                /\ loop'[l].mapping[g] = Strip(loop[l].api_response.conversation_id)
                /\ Truthy(loop'[l].mapping[g])
        /\ Truthy(loop[l].mapping[g]) => Truthy(loop'[l].mapping[g])
      ]_vars

\* a group with a stored id had a second successful case whose response
\* carried only a blank id, and kept its id
C24_Witness ==
    \E l \in Loops :
        /\ loop[l].mapping["g1"] = <<"a">>
        /\ loop[l].lastId["g1"] = <<" ">>
        /\ Len(loop[l].results) = 2
        /\ loop[l].results[2].api_status = "success"

\* C25: every run starts with an empty store of its own: the store is empty
\* when the run's loop begins, no store ever holds and no request ever
\* carries an id the server gave in another run, and a write to the store
\* of one loop leaves the stores of the other loops as they were.
C25_StorePerRun ==
    [][\A l \in Loops :
        /\ (loop[l].pc = "scheduled" /\ loop'[l].pc = "top") =>
                loop'[l].mapping = EmptyMapping
        /\ \A m \in Loops \ {l} :
                /\ loop'[l].lastReq.sent # RunId(m)
                /\ \A g \in Groups : loop'[l].mapping[g] # RunId(m)
                /\ loop'[l].mapping # loop[l].mapping => loop'[m].mapping = loop[m].mapping
      ]_vars

\* the second run has sent its first request, without a conversation id,
\* while the store of the first run holds the id of the first run
C25_Witness ==
    /\ loop[1].mapping["g1"] = RunId(1)
    /\ loop[2].called = 1
    /\ loop[2].calls = 1
    /\ loop[2].lastReq.sent = None

\* the last n entries of a sequence
LastEntries(entries, n) == SubSeq(entries, Len(entries) - n + 1, Len(entries))

\* the smaller of two numbers
Smaller(a, b) == IF a < b THEN a ELSE b

\* C26: after any appends the log holds the last entries appended, in the
\* order of the appends, as many as were appended and at most the bound of
\* the buffer; GET /logs with limit > 0 returns the last min(limit, size)
\* entries of the buffer, in that order.
C26_LogIsBoundedRingBuffer ==
    [][/\ Len(logs') <= MaxLogEntries
       /\ Len(logs') = Smaller(Len(logclient'.appended), MaxLogEntries)
       /\ logs' = LastEntries(logclient'.appended, Len(logs'))
       /\ (logclient'.requests # logclient.requests /\ logclient'.limit > 0) =>
                /\ Len(logclient'.data) = Smaller(logclient'.limit, Len(logs))
                /\ logclient'.data = LastEntries(logs, Len(logclient'.data))
      ]_vars

\* more entries than the buffer keeps were appended, and a reader asked for
\* fewer entries than the buffer held
C26_Witness ==
    /\ Len(logclient.appended) = MaxLogEntries + 2
    /\ logclient.appended[1].level # logclient.appended[MaxLogEntries + 1].level
    /\ logclient.limit = 1
    /\ Len(logs) = MaxLogEntries
    /\ logclient.data = <<logs[Len(logs)]>>
    /\ logs[1] # logs[Len(logs)]

\* the step is the handler of a run-level exception of run l
ExceptStep(l) == loop[l].pc = "except" /\ loop'[l].pc # "except"

\* C27: an exception outside the per-case handling ends the run: the status
\* becomes error, the end time is set, the failure is logged as an error,
\* the record the handler writes has status error and the results of every
\* case processed before, and the loop is over: it begins no other case.
C27_RunLevelExceptionAborts ==
    [][\A l \in Loops :
        /\ ExceptStep(l) =>
                /\ status' = "error"
                /\ end_time'
                /\ logs'[Len(logs')] = [level |-> "error", message |-> "test execution error"]
                /\ loop'[l].pc = "done"
                /\ loop'[l].results = loop[l].results
                /\ sink' # sink =>
                        /\ Len(sink') = Len(sink) + 1
                        /\ sink'[Len(sink')].status = "error"
                        /\ sink'[Len(sink')].end_time
                        /\ sink'[Len(sink')].task_id = loop[l].task
                        /\ sink'[Len(sink')].results = loop[l].results
        /\ loop[l].pc = "done" => loop'[l] = loop[l]
      ]_vars

\* the record of the run could not be written after two cases: the run has
\* ended in error and the error record holds the two results
C27_Witness ==
    \E l \in Loops :
        /\ loop[l].pc = "done"
        /\ status = "error"
        /\ end_time
        /\ Len(loop[l].results) = 2
        /\ sink # <<>>
        /\ sink[Len(sink)].status = "error"
        /\ sink[Len(sink)].loop = l
        /\ sink[Len(sink)].results = loop[l].results

\* C28: when the API configuration is missing or invalid, or the connection
\* test fails, the command-line run ends before any test case is sent: no
\* API call is made for a case and no case result is produced.
C28_BadConfigurationAborts ==
    cli.config \in {"invalid", "unreachable"} =>
        /\ cli.called = 0
        /\ cli.results = <<>>
        /\ cli.pc = "done"

\* an invalid configuration ends the run before any case
InvalidConfigurationAborts ==
    cli.config = "invalid" => (cli.called = 0 /\ cli.results = <<>> /\ cli.pc = "done")

\* C29: whenever the status is completed, every case has been counted
\* (completed = total), the end time is set and no loop is still at work.
C29_CompletedMeansAllDone ==
    status = "completed" =>
        /\ progress.completed = progress.total
        /\ end_time
        /\ \A l \in Loops : loop[l].pc \in {"unborn", "done"}

\* C30: when an API call of a case has been made, the outcome of every case
\* before it has been handed to the result sink (add_test_record in the web
\* engine, append_result_to_file in the command-line engine).
C30_ResultHandedBeforeNextCase ==
    /\ \A l \in Loops : loop[l].calls >= 1 => loop[l].handed >= loop[l].i - 1
    /\ cli.calls >= 1 => cli.handed >= cli.i - 1

\* the command-line engine hands every result to the file before the next
\* case, and goes on in the same way whether the file was written or not
CliAppendsEveryResult ==
    [][CliRecordStep =>
        /\ cli'.handed = cli.handed + 1
        /\ cli'.handed = Len(cli'.results)
        /\ Len(cli'.results) = Len(cli.results) + 1
        /\ cli'.i = cli.i + 1
        /\ cli'.pc = (IF cli.i < Len(cases) THEN "case" ELSE "finish")
        /\ cli'.file \in {cli.file, Append(cli.file, cli'.results[Len(cli'.results)])}
      ]_vars

\* ------------------------------------------------------------------ C31
\* the results of the run that are in no file: neither a row of the result
\* file nor a row of the file of save_results
Unpersisted ==
    {k \in DOMAIN cli.results :
        /\ \A r \in DOMAIN cli.file : cli.file[r] # cli.results[k]
        /\ \A r \in DOMAIN cli.backup : cli.backup[r] # cli.results[k]}

\* C31: when run() has returned True and append_result_to_file did not
\* write the result of at least one case, save_results has written the
\* complete list of results, so that every result of the run is in a file.
C31_FallbackPersistsEveryResult ==
    (engine = "cli" /\ cli.pc = "done" /\ cli.success
        /\ Len(cli.file) < Len(cli.results))
    => (cli.backup = cli.results /\ Unpersisted = {})

\* ------------------------------------------------------------------ C32
\* the web loop goes to the inter-case delay after every case but the last,
\* unless the run is stopped
WebDelayBetweenCases ==
    [][\A l \in Loops : RecordStep(l) =>
          ((loop'[l].pc = "case_sleep")
              <=> (loop[l].i < Len(cases) /\ status # "stopped"))]_vars

\* C32: the delay between two cases is taken after every processed case
\* except the last one of the sequence and except when the run is stopped,
\* in the web loop and in run() of the command-line tool alike.
C32_DelayAfterEveryCaseButLast ==
    [][/\ \A l \in Loops : RecordStep(l) =>
             ((loop'[l].pc = "case_sleep")
                 <=> (loop[l].i < Len(cases) /\ status # "stopped"))
       /\ CliRecordStep =>
             cli'.delays = IF cli.i < Len(cases) THEN cli.delays + 1
                           ELSE cli.delays]_vars

\* ------------------------------------------------------------------ C33
\* what the client that received the last response to GET /status holds
Held ==
    IF snapshot.live
    THEN [status |-> status, progress |-> progress, statistics |-> statistics,
          logs |-> logs]
    ELSE [status |-> snapshot.status, progress |-> snapshot.progress,
          statistics |-> snapshot.statistics, logs |-> snapshot.logs]

C34_StreamEndsOnTerminalSnapshot ==
    [][(subscription.pc = "yield" /\ subscription'.pc # "yield") =>
          (subscription'.pc = "ended"
              <=> subscription.emitted \in Terminal)]_vars

\* ------------------------------------------------------------------ C35
\* the last call of the case returned normally: a JSON object without an
\* error key, whatever fields it has
ReturnedNormally(lp) == ~lp.raised /\ lp.api_response.kind \in {"empty", "dict"}

\* the same for the objects that have at least one key
NonEmptyObjectIsSuccess ==
    [][/\ \A l \in Loops :
            (RecordStep(l) /\ Answered(loop[l]) /\ status # "stopped") =>
                loop'[l].results[Len(loop'[l].results)].api_status = "success"
       /\ (CliRecordStep /\ Answered(cli)) =>
                cli'.results[Len(cli'.results)].api_status = "success"]_vars

\* C35: a call that returned a JSON object without an error key is not a
\* failure, whichever of the fields answer and conversation_id the object
\* lacks: the case is recorded with status success.
C35_MissingFieldsAreTolerated ==
    [][/\ \A l \in Loops :
            (RecordStep(l) /\ ReturnedNormally(loop[l]) /\ status # "stopped") =>
                loop'[l].results[Len(loop'[l].results)].api_status = "success"
       /\ (CliRecordStep /\ ReturnedNormally(cli)) =>
                cli'.results[Len(cli'.results)].api_status = "success"]_vars

\* ------------------------------------------------------------------ C36
\* the step is run l sending a request
CallStep(l) == loop[l].pc = "attempt" /\ loop'[l].calls = loop[l].calls + 1

\* C36 (as stated): a request of a group carries the id returned by the
\* most recent call of the group that returned a non-empty id, and carries
\* no id when no call of the group has returned one.
C36_CarriesMostRecentReturnedId ==
    [][\A l \in Loops : CallStep(l) =>
          loop'[l].lastReq.sent = loop[l].lastTruthy[cases[loop[l].i]]]_vars

\* the id a request carries when `returned` is the id last returned for its
\* group that was not blank (None: there is none)
Carried(returned) ==
    IF returned = None \/ Strip(returned) = NewLiteral THEN None
    ELSE Strip(returned)

\* C36 (amended): a request of a group carries the id, without its
\* surrounding whitespace, returned by the most recent call of the group
\* that returned an id that is not blank, unless that id is the literal
\* 'new'; it carries no id when no call of the group has returned a
\* non-blank id: the first turn of a group and a turn that follows only
\* failed turns of its group are sent without conversation_id.
C36_CarriesMostRecentStrippedId ==
    [][\A l \in Loops : CallStep(l) =>
          loop'[l].lastReq.sent = Carried(loop[l].lastGood[cases[loop[l].i]])]_vars

\* C36 witness: the third request of a group carries "a", the id of its
\* first call, the second call having returned a blank id.
C36_Witness ==
    \E l \in Loops :
        /\ loop[l].called = 3
        /\ loop[l].lastReq.sent = <<"a">>
        /\ loop[l].lastReq.prev = <<" ">>
        /\ loop[l].lastGood[cases[3]] = <<"a">>

\* ------------------------------------------------------------------ C37
\* C37: whenever the status is running or paused, the coroutine of the
\* current run has been scheduled and has not returned.
C37_ActiveStatusHasLoop ==
    (engine = "web" /\ status \in {"running", "paused"})
        => (task_id > 0 /\ Alive(task_id))

\* ------------------------------------------------------------------ C38
\* C38: the end time of the run is set exactly when the status is
\* completed, stopped or error; it is absent when the status is idle,
\* running or paused.
C38_EndTimeIffTerminal ==
    engine = "web" => (end_time <=> status \in Terminal)

\* C38 witness: the first run was stopped, which set the end time; a second
\* run has been started and paused, and the end time is absent again.
C38_Witness ==
    /\ engine = "web"
    /\ task_id = 2
    /\ stopMark[1] >= 0
    /\ status = "paused"
    /\ ~end_time

\* ------------------------------------------------------------------ C39
\* the history records run l has written
RecordsOf(l) == {k \in DOMAIN sink : sink[k].loop = l}

\* C39: a run whose loop has returned has written no more than one history
\* record, and the record it has written carries a final status
\* (completed, stopped or error) and the end time of the run; for a run
\* that processed all its cases and completed, the record says completed.
C39_RecordCarriesFinalStatus ==
    \A l \in Loops :
        loop[l].pc = "done" =>
            /\ Cardinality(RecordsOf(l)) <= 1
            /\ \A k \in RecordsOf(l) :
                    /\ sink[k].status \in Terminal
                    /\ sink[k].end_time
                    /\ (status = "completed" /\ task_id = l
                            /\ Len(loop[l].results) = Len(cases))
                         => sink[k].status = "completed"
====
